---- MODULE Spec2Model ----
(***************************************************************************)
(* Brute-force vector search of the Convex RAG system: the vector math     *)
(* library (convex/lib/vectors.ts), the stores that cache magnitudes, the  *)
(* three search queries and the cursor pagination of searchChunksV2.       *)
(*                                                                         *)
(* Numbers.  Embedding entries are integers and every vector the model     *)
(* draws has an integer L2 norm, so Math.sqrt is exact; a similarity is    *)
(* the exact fraction dot / (magA * magB), kept as numerator/denominator   *)
(* and compared by cross-multiplication.                                   *)
(* Strings.  A string is the sequence of its character codes, so that the  *)
(* cursor's formatting, split(":") and parseInt are computed, and ids are  *)
(* compared the way the database compares strings.                         *)
(* Optional arguments and fields are sequences of length at most one.      *)
(***************************************************************************)
EXTENDS Integers, Sequences, FiniteSets, TLC

VARIABLES
  vectorMemories,   \* table vectorMemories, in _creationTime order
  chunks,           \* table chunks, in _creationTime order
  chunkEmbeddings,  \* table chunkEmbeddings, in _creationTime order
  now,              \* Date.now()
  ret,              \* what the last search call returned (or that it threw)
  session,          \* a client paging through searchChunksV2 by nextCursor
  documents,        \* table documents, in _creationTime order
  listing,          \* a client paging through listDocuments by nextCursor
  calc,             \* the last call of a function of convex/lib/vectors.ts
  log,              \* the pages of the current and of the previous session
  run,              \* the processDocument / rechunkDocument action in flight
  loop,             \* chunkDocument's for loop, one iteration at a time
  issued            \* how many ids the database has handed out, per table

vars ==
  <<vectorMemories, chunks, chunkEmbeddings, now, ret, session,
    documents, listing, calc, log, run, loop, issued>>

\* The ingestion pipeline's own state.
pipeVars == <<run, loop>>
\* What the vector searches and their stores never touch.
docVars == <<documents, listing, pipeVars, issued>>
\* What only the observers of a behaviour write.
obsVars == <<calc, log>>

---------------------------------------------------------------------------
\* Bounds of the model.

\* take(1000) of every search, scaled down: the scan cap.
ScanCap == 2
\* Most records in chunkEmbeddings.
MaxPool == 3
\* Most records in chunks and in vectorMemories.
MaxChunks == 2
MaxMemories == 2
\* Date.now() runs from StartTime to MaxTime.
StartTime == 9
MaxTime == 10
\* Most items of one batchStoreChunkEmbeddings call.
MaxBatch == 2

---------------------------------------------------------------------------
\* Optional values and JavaScript truthiness.

None == <<>>
Some(x) == <<x>>
IsSome(o) == Len(o) = 1

Min(a, b) == IF a <= b THEN a ELSE b
Max(a, b) == IF a >= b THEN a ELSE b

---------------------------------------------------------------------------
\* Strings as character codes.

Colon == 58
Digit0 == 48
IsDigit(c) == c >= Digit0 /\ c <= Digit0 + 9

\* `${n}` of a non-negative integer.
RECURSIVE DecimalString(_)
DecimalString(n) ==
  IF n < 10 THEN <<Digit0 + n>>
  ELSE DecimalString(n \div 10) \o <<Digit0 + (n % 10)>>

\* parseInt yields NaN on a string with no leading digit.
NaN == -1

RECURSIVE ParseDigits(_, _)
ParseDigits(s, acc) ==
  IF s = <<>> \/ ~IsDigit(Head(s)) THEN acc
  ELSE ParseDigits(Tail(s), acc * 10 + (Head(s) - Digit0))

ParseInt(s) ==
  IF s = <<>> \/ ~IsDigit(Head(s)) THEN NaN ELSE ParseDigits(s, 0)

\* s.split(sep): the parts between the separators, at least one part.
RECURSIVE Split(_, _)
Split(s, sep) ==
  IF \A i \in 1..Len(s) : s[i] # sep THEN <<s>>
  ELSE LET k == CHOOSE i \in 1..Len(s) :
                  s[i] = sep /\ \A j \in 1..(i - 1) : s[j] # sep
       IN <<SubSeq(s, 1, k - 1)>> \o Split(SubSeq(s, k + 1, Len(s)), sep)

\* a < b for strings: the first differing character decides, a proper prefix
\* is smaller.
StrLt(a, b) ==
  \E i \in 1..(Min(Len(a), Len(b)) + 1) :
    /\ \A j \in 1..(i - 1) : a[j] = b[j]
    /\ \/ (i > Len(a) /\ i <= Len(b))
       \/ (i <= Len(a) /\ i <= Len(b) /\ a[i] < b[i])

\* A comparison with NaN is false.
NumLt(a, b) == a # NaN /\ b # NaN /\ a < b
NumEq(a, b) == a # NaN /\ b # NaN /\ a = b

---------------------------------------------------------------------------
\* convex/lib/vectors.ts

RECURSIVE SumProducts(_, _)
SumProducts(a, b) ==
  IF a = <<>> THEN 0 ELSE Head(a) * Head(b) + SumProducts(Tail(a), Tail(b))

\* Math.sqrt on the squares the model's vectors produce.
Sqrt(n) == CHOOSE r \in 0..n : r * r = n

\* calculateMagnitude, and the inline Math.sqrt(reduce(...)) of the handlers.
calculateMagnitudeSquared(vector) == SumProducts(vector, vector)
calculateMagnitude(vector) == Sqrt(SumProducts(vector, vector))

\* A number returned by the similarity functions, or the thrown
\* "Vector dimension mismatch" error.
Rat(n, d) == [threw |-> FALSE, num |-> n, den |-> d]
DimensionMismatch == [threw |-> TRUE, num |-> 0, den |-> 1]

RatGe(x, y) == x.num * y.den >= y.num * x.den
RatGt(x, y) == x.num * y.den > y.num * x.den
RatEq(x, y) == x.num * y.den = y.num * x.den

cosineSimilarityWithMagnitudeZeroFirst(a, b, magnitudeA, magnitudeB) ==
  IF magnitudeA = 0 \/ magnitudeB = 0 THEN Rat(0, 1)
  ELSE IF Len(a) # Len(b) THEN DimensionMismatch
  ELSE Rat(SumProducts(a, b), magnitudeA * magnitudeB)
cosineSimilarityWithMagnitude(a, b, magnitudeA, magnitudeB) ==
  IF Len(a) # Len(b) THEN DimensionMismatch
  ELSE IF magnitudeA = 0 \/ magnitudeB = 0 THEN Rat(0, 1)
  ELSE Rat(SumProducts(a, b), magnitudeA * magnitudeB)

\* The division without the zero test: 0 / 0 is NaN, a fraction over 0.
cosineSimilarityUnguarded(a, b) ==
  IF Len(a) # Len(b) THEN DimensionMismatch
  ELSE Rat(SumProducts(a, b),
           Sqrt(SumProducts(a, a)) * Sqrt(SumProducts(b, b)))
cosineSimilarity(a, b) ==
  IF Len(a) # Len(b) THEN DimensionMismatch
  ELSE LET magnitudeA == Sqrt(SumProducts(a, a))
           magnitudeB == Sqrt(SumProducts(b, b))
       IN IF magnitudeA = 0 \/ magnitudeB = 0 THEN Rat(0, 1)
          ELSE Rat(SumProducts(a, b), magnitudeA * magnitudeB)

\* dotProduct
dotProduct(a, b) ==
  IF Len(a) # Len(b) THEN DimensionMismatch ELSE Rat(SumProducts(a, b), 1)

\* euclideanDistance: Math.sqrt of the sum of the squared differences; the
\* value is kept as the number under the root.
RECURSIVE SumSquaredDiffs(_, _)
SumSquaredDiffs(a, b) ==
  IF a = <<>> THEN 0
  ELSE (Head(a) - Head(b)) * (Head(a) - Head(b))
       + SumSquaredDiffs(Tail(a), Tail(b))

Root(n) == [threw |-> FALSE, sqrtOf |-> n]

euclideanDistance(a, b) ==
  IF Len(a) # Len(b) THEN DimensionMismatch ELSE Root(SumSquaredDiffs(a, b))

---------------------------------------------------------------------------
\* The filter / sort / slice pipeline shared by the searches.

\* .filter(result => result.similarity >= threshold)
PassesThresholdStrict(similarity, threshold) == RatGt(similarity, threshold)
PassesThreshold(similarity, threshold) == RatGe(similarity, threshold)

\* One step of .sort((a, b) => b.similarity - a.similarity): the sort is
\* stable, so x, which follows every element of `sorted` in the input, goes
\* after the elements whose similarity is >= its own.
InsertDescUnstable(sorted, x) ==
  LET pos == Cardinality({i \in 1..Len(sorted) :
                            RatGt(sorted[i].similarity, x.similarity)})
  IN SubSeq(sorted, 1, pos) \o <<x>> \o SubSeq(sorted, pos + 1, Len(sorted))
InsertDesc(sorted, x) ==
  LET pos == Cardinality({i \in 1..Len(sorted) :
                            RatGe(sorted[i].similarity, x.similarity)})
  IN SubSeq(sorted, 1, pos) \o <<x>> \o SubSeq(sorted, pos + 1, Len(sorted))

RECURSIVE SortDesc(_)
SortDesc(s) ==
  IF s = <<>> THEN <<>>
  ELSE InsertDesc(SortDesc(SubSeq(s, 1, Len(s) - 1)), s[Len(s)])

\* .slice(0, n) for an integer n.
Slice0(s, n) ==
  LET end == IF n < 0 THEN Max(Len(s) + n, 0) ELSE Min(n, Len(s))
  IN SubSeq(s, 1, end)

\* .take(n): the first n records of the query's order.
Take(s, n) == SubSeq(s, 1, Min(n, Len(s)))

\* `args.limit || 10`, `args.threshold || 0.7`: 0 is falsy.
DefaultLimit == 10
DefaultThreshold == Rat(7, 10)
LimitInForce(limitArg) ==
  IF IsSome(limitArg) /\ limitArg[1] # 0 THEN limitArg[1] ELSE DefaultLimit
ThresholdInForce(thresholdArg) ==
  IF IsSome(thresholdArg) /\ thresholdArg[1].num # 0 THEN thresholdArg[1]
  ELSE DefaultThreshold

\* candidates.map(similarity).filter(>= threshold).sort(desc).slice(0, limit)
\* over candidates [_id, embedding, magnitude]; the map throws when one
\* candidate's dimension differs from the query's.
Score(query, queryMagnitude, candidates) ==
  [i \in 1..Len(candidates) |->
     [id |-> candidates[i]._id,
      similarity |-> cosineSimilarityWithMagnitude(
                        query, candidates[i].embedding,
                        queryMagnitude, candidates[i].magnitude)]]

ThrowsOrEmpty(scored) ==
  scored = <<>> \/ \E i \in 1..Len(scored) : scored[i].similarity.threw
Throws(scored) == \E i \in 1..Len(scored) : scored[i].similarity.threw

Rank(scored, threshold, limit) ==
  Slice0(SortDesc(SelectSeq(scored,
                            LAMBDA r : PassesThreshold(r.similarity, threshold))),
         limit)

---------------------------------------------------------------------------
\* The tables.  A table is the sequence of its documents in _creationTime
\* order, which is the order a query without .order() returns them in; an
\* index with an equality on its field keeps that order among the matches.

\* _id of a chunkEmbeddings document: a string; the database hands out ids
\* in no order the code controls.
EmbeddingIds == {<<107, c>> : c \in 97..(96 + MaxPool)}

IdsOf(table) == {table[i]._id : i \in 1..Len(table)}

\* ctx.db.get(id), on a document that exists.
Get(table, id) == table[CHOOSE i \in 1..Len(table) : table[i]._id = id]

\* ctx.db.patch(id, fields), on a document that exists.
Patch(table, id, fields) ==
  [i \in 1..Len(table) |->
     IF table[i]._id = id
     THEN [f \in DOMAIN table[i] |->
             IF f \in DOMAIN fields THEN fields[f] ELSE table[i][f]]
     ELSE table[i]]

---------------------------------------------------------------------------
\* convex/functions/vectorSearchV2.ts

\* One item of the stores: the chunkEmbeddings document and the chunk patch.
EmbeddingDoc(id, item, createdAt) ==
  [_id |-> id,
   chunkId |-> item.chunkId,
   embedding |-> item.embedding,
   magnitude |-> calculateMagnitude(item.embedding),
   model |-> item.model,
   dimensions |-> item.dimensions,
   createdAt |-> createdAt]

ChunkPatch(item) ==
  [embeddingModel |-> Some(item.model),
   embeddingDimensions |-> Some(item.dimensions),
   magnitude |-> Some(calculateMagnitude(item.embedding))]

\* storeChunkEmbedding: insert, then patch the chunk; ctx.db.patch throws on
\* a chunk that does not exist and the mutation then changes nothing.
StoreChunkEmbedding(id, item) ==
  /\ Len(chunkEmbeddings) < MaxPool
  /\ id \notin IdsOf(chunkEmbeddings)
  /\ item.chunkId \in IdsOf(chunks)
  /\ chunkEmbeddings' = Append(chunkEmbeddings, EmbeddingDoc(id, item, now))
  /\ chunks' = Patch(chunks, item.chunkId, ChunkPatch(item))
  /\ UNCHANGED <<vectorMemories, now, ret, session>>

\* batchStoreChunkEmbeddings: the same for each item in turn, all within one
\* mutation, so with one Date.now().
RECURSIVE BatchInsert(_, _, _, _)
BatchInsert(table, ids, items, createdAt) ==
  IF items = <<>> THEN table
  ELSE BatchInsert(Append(table, EmbeddingDoc(Head(ids), Head(items), createdAt)),
                   Tail(ids), Tail(items), createdAt)

RECURSIVE BatchPatch(_, _)
BatchPatch(table, items) ==
  IF items = <<>> THEN table
  ELSE BatchPatch(Patch(table, Head(items).chunkId, ChunkPatch(Head(items))),
                  Tail(items))

BatchStoreChunkEmbeddings(ids, items) ==
  /\ Len(ids) = Len(items)
  /\ Len(chunkEmbeddings) + Len(items) <= MaxPool
  /\ \A i \in 1..Len(ids) : ids[i] \notin IdsOf(chunkEmbeddings)
  /\ \A i, j \in 1..Len(ids) : i # j => ids[i] # ids[j]
  /\ \A i \in 1..Len(items) : items[i].chunkId \in IdsOf(chunks)
  /\ chunkEmbeddings' = BatchInsert(chunkEmbeddings, ids, items, now)
  /\ chunks' = BatchPatch(chunks, items)
  /\ UNCHANGED <<vectorMemories, now, ret, session>>

\* `${lastResult.createdAt}:${lastResult._id}`
EncodeCursor(doc) == DecimalString(doc.createdAt) \o <<Colon>> \o doc._id

\* The cursor's filter: createdAt < t, or createdAt = t and _id < id.
CursorFilterInclusive(doc, createdAt, idStr) ==
  \/ NumLt(doc.createdAt, createdAt)
  \/ (NumEq(doc.createdAt, createdAt) /\ (StrLt(doc._id, idStr) \/ doc._id = idStr))
CursorFilter(doc, createdAt, idStr) ==
  \/ NumLt(doc.createdAt, createdAt)
  \/ (NumEq(doc.createdAt, createdAt) /\ StrLt(doc._id, idStr))

\* The same query on a server that kept the position of the last page and
\* resumed from it when the caller passes no cursor.
EmbeddingsQueryResuming(table, modelArg, cursorArg) ==
  LET base == IF IsSome(modelArg) /\ modelArg[1] # ""
              THEN SelectSeq(table, LAMBDA d : d.model = modelArg[1])
              ELSE table
      cursor == IF IsSome(cursorArg) THEN cursorArg ELSE session.cursor
  IN IF IsSome(cursor) /\ cursor[1] # <<>>
     THEN LET parts == Split(cursor[1], Colon)
              createdAt == ParseInt(parts[1])
              idStr == IF Len(parts) >= 2 THEN parts[2] ELSE <<>>
          IN SelectSeq(base, LAMBDA d : CursorFilter(d, createdAt, idStr))
     ELSE base

\* The query the handler builds: the table, or the by_model index on
\* args.model, then the cursor's filter; neither states an order, so the
\* documents come in _creationTime order, oldest first.
EmbeddingsQuery(table, modelArg, cursorArg) ==
  LET base == IF IsSome(modelArg) /\ modelArg[1] # ""
              THEN SelectSeq(table, LAMBDA d : d.model = modelArg[1])
              ELSE table
  IN IF IsSome(cursorArg) /\ cursorArg[1] # <<>>
     THEN LET parts == Split(cursorArg[1], Colon)
              createdAt == ParseInt(parts[1])
              idStr == IF Len(parts) >= 2 THEN parts[2] ELSE <<>>
          IN SelectSeq(base, LAMBDA d : CursorFilter(d, createdAt, idStr))
     ELSE base

\* hasMore: embeddings.length === 1000
HasMore(embeddings) == Len(embeddings) = ScanCap

\* nextCursor: from the last scanned document, null on an empty window.
NextCursor(embeddings) ==
  IF embeddings # <<>> THEN Some(EncodeCursor(embeddings[Len(embeddings)]))
  ELSE None

\* What a search call leaves in ret: its arguments, the limit and threshold
\* in force, the candidates it scanned, their similarities, and what it
\* returned; or that it threw.
Returned(op, args, limit, threshold, window, scored, results, nextCursor, hasMore) ==
  [op |-> op, threw |-> FALSE, args |-> args,
   limit |-> limit, threshold |-> threshold,
   window |-> window, scored |-> scored, results |-> results,
   nextCursor |-> nextCursor, hasMore |-> hasMore]

Threw(op, args, limit, threshold, window) ==
  [op |-> op, threw |-> TRUE, args |-> args,
   limit |-> limit, threshold |-> threshold,
   window |-> window, scored |-> <<>>, results |-> <<>>,
   nextCursor |-> None, hasMore |-> FALSE]

\* searchChunksV2's handler on args [embedding, limit, threshold, cursor,
\* model].
searchChunksV2CursorFromResults(args) ==
  LET limit == LimitInForce(args.limit)
      threshold == ThresholdInForce(args.threshold)
      queryMagnitude == calculateMagnitude(args.embedding)
      embeddings == Take(EmbeddingsQuery(chunkEmbeddings, args.model, args.cursor),
                         ScanCap)
      scored == Score(args.embedding, queryMagnitude, embeddings)
      results == Rank(scored, threshold, limit)
      returned == SelectSeq(embeddings,
                            LAMBDA d : results # <<>> /\ d._id = results[Len(results)].id)
  IN IF Throws(scored)
     THEN Threw("searchChunksV2", args, limit, threshold, embeddings)
     ELSE Returned("searchChunksV2", args, limit, threshold, embeddings, scored,
                   results, NextCursor(returned), HasMore(embeddings))
searchChunksV2(args) ==
  LET limit == LimitInForce(args.limit)
      threshold == ThresholdInForce(args.threshold)
      queryMagnitude == calculateMagnitude(args.embedding)
      embeddings == Take(EmbeddingsQuery(chunkEmbeddings, args.model, args.cursor),
                         ScanCap)
      scored == Score(args.embedding, queryMagnitude, embeddings)
  IN IF Throws(scored)
     THEN Threw("searchChunksV2", args, limit, threshold, embeddings)
     ELSE Returned("searchChunksV2", args, limit, threshold, embeddings, scored,
                   Rank(scored, threshold, limit),
                   NextCursor(embeddings), HasMore(embeddings))

---------------------------------------------------------------------------
\* convex/functions/vectorSearch.ts: the stores.

\* storeChunkWithEmbedding: a chunk with its embedding and magnitude.
StoreChunkWithEmbedding(documentId, embedding, embeddingModel) ==
  /\ Len(chunks) < MaxChunks
  /\ chunks' = Append(chunks,
       [_id |-> Len(chunks) + 1,
        documentId |-> documentId,
        embedding |-> Some(embedding),
        embeddingModel |-> Some(embeddingModel),
        embeddingDimensions |-> Some(Len(embedding)),
        magnitude |-> Some(calculateMagnitude(embedding)),
        createdAt |-> now])
  /\ UNCHANGED <<vectorMemories, chunkEmbeddings, now, ret, session>>

\* storeVectorMemory: the document is the arguments as given, the caller's
\* magnitude among them.
StoreVectorMemory(memoryType, agentId, embedding, magnitude) ==
  /\ Len(vectorMemories) < MaxMemories
  /\ vectorMemories' = Append(vectorMemories,
       [_id |-> Len(vectorMemories) + 1,
        memoryType |-> memoryType,
        agentId |-> agentId,
        embedding |-> embedding,
        magnitude |-> magnitude,
        accessCount |-> 0,
        lastAccessedAt |-> now,
        createdAt |-> now])
  /\ UNCHANGED <<chunks, chunkEmbeddings, now, ret, session>>

\* vectorSearch's candidates: by_type (and a filter on agentId), by_type,
\* by_agent, or the whole table; the first 1000.
MemoryCandidates(memoryTypeArg, agentIdArg) ==
  Take(IF IsSome(memoryTypeArg) /\ IsSome(agentIdArg) /\ agentIdArg[1] # ""
       THEN SelectSeq(vectorMemories,
                      LAMBDA d : d.memoryType = memoryTypeArg[1]
                                 /\ d.agentId = agentIdArg)
       ELSE IF IsSome(memoryTypeArg)
       THEN SelectSeq(vectorMemories, LAMBDA d : d.memoryType = memoryTypeArg[1])
       ELSE IF IsSome(agentIdArg) /\ agentIdArg[1] # ""
       THEN SelectSeq(vectorMemories, LAMBDA d : d.agentId = agentIdArg)
       ELSE vectorMemories,
       ScanCap)

\* vectorSearch's handler on args [embedding, memoryType, limit, threshold,
\* agentId].
vectorSearch(args) ==
  LET limit == LimitInForce(args.limit)
      threshold == ThresholdInForce(args.threshold)
      queryMagnitude == calculateMagnitude(args.embedding)
      candidates == MemoryCandidates(args.memoryType, args.agentId)
      scored == Score(args.embedding, queryMagnitude, candidates)
  IN IF Throws(scored)
     THEN Threw("vectorSearch", args, limit, threshold, candidates)
     ELSE Returned("vectorSearch", args, limit, threshold, candidates, scored,
                   Rank(scored, threshold, limit), None, FALSE)

\* searchChunks' candidates: the first 1000 chunks that have an embedding
\* and a magnitude; the map then drops a chunk whose magnitude is 0 (falsy).
ChunkCandidates ==
  LET found == Take(SelectSeq(chunks,
                              LAMBDA c : IsSome(c.embedding) /\ IsSome(c.magnitude)),
                    ScanCap)
      scanned == SelectSeq(found, LAMBDA c : c.magnitude[1] # 0)
  IN [i \in 1..Len(scanned) |->
        [_id |-> scanned[i]._id,
         embedding |-> scanned[i].embedding[1],
         magnitude |-> scanned[i].magnitude[1]]]

\* searchChunks' handler on args [embedding, limit, threshold].
searchChunks(args) ==
  LET limit == LimitInForce(args.limit)
      threshold == ThresholdInForce(args.threshold)
      candidates == ChunkCandidates
      queryMagnitude == calculateMagnitude(args.embedding)
      scored == Score(args.embedding, queryMagnitude, candidates)
  IN IF Throws(scored)
     THEN Threw("searchChunks", args, limit, threshold, candidates)
     ELSE Returned("searchChunks", args, limit, threshold, candidates, scored,
                   Rank(scored, threshold, limit), None, FALSE)

\* topKSimilar(query, vectors, k, threshold = 0) of convex/lib/vectors.ts:
\* a candidate with a truthy magnitude is scored with it, any other by
\* cosineSimilarity.
topKSimilar(args, vectors) ==
  LET k == args.limit[1]
      threshold == IF IsSome(args.threshold) THEN args.threshold[1] ELSE Rat(0, 1)
      scored ==
        [i \in 1..Len(vectors) |->
           [id |-> vectors[i]._id,
            similarity |->
              IF IsSome(vectors[i].magnitude) /\ vectors[i].magnitude[1] # 0
              THEN cosineSimilarityWithMagnitude(
                     args.embedding, vectors[i].embedding,
                     calculateMagnitude(args.embedding), vectors[i].magnitude[1])
              ELSE cosineSimilarity(args.embedding, vectors[i].embedding)]]
  IN IF Throws(scored) THEN Threw("topKSimilar", args, k, threshold, vectors)
     ELSE Returned("topKSimilar", args, k, threshold, vectors, scored,
                   Rank(scored, threshold, k), None, FALSE)

\* updateAccessCounts: one more access, at this mutation's Date.now(), for
\* each id of args.memoryIds in turn that names a memory.
AccessPatchMagnitude(memory, t) ==
  [accessCount |-> memory.accessCount + 1, lastAccessedAt |-> t,
   magnitude |-> memory.magnitude + 1]
AccessPatch(memory, t) ==
  [accessCount |-> memory.accessCount + 1, lastAccessedAt |-> t]

RECURSIVE AccessLoop(_, _, _)
AccessLoop(table, memoryIds, t) ==
  IF memoryIds = <<>> THEN table
  ELSE LET id == Head(memoryIds)
       IN AccessLoop(IF id \in IdsOf(table)
                     THEN Patch(table, id, AccessPatch(Get(table, id), t))
                     ELSE table,
                     Tail(memoryIds), t)

UpdateAccessCounts(memoryIds) ==
  /\ vectorMemories' = AccessLoop(vectorMemories, memoryIds, now)
  /\ UNCHANGED <<chunks, chunkEmbeddings, now, ret, session>>

\* getSimilarChunks' handler on args [chunkId, limit, threshold]: the first
\* embedding of the chunk is the query of a searchChunksV2 call on its model,
\* whose results on the source chunk itself are then left out.
DefaultSimilarLimit == 5
DefaultSimilarThreshold == Rat(4, 5)

getSimilarChunks(args) ==
  LET limit == IF IsSome(args.limit) /\ args.limit[1] # 0 THEN args.limit[1]
               ELSE DefaultSimilarLimit
      threshold == IF IsSome(args.threshold) /\ args.threshold[1].num # 0
                   THEN args.threshold[1] ELSE DefaultSimilarThreshold
      ofChunk == SelectSeq(chunkEmbeddings, LAMBDA d : d.chunkId = args.chunkId)
  IN IF ofChunk = <<>>
     THEN Returned("getSimilarChunks", args, limit, threshold,
                   <<>>, <<>>, <<>>, None, FALSE)
     ELSE LET sourceEmbedding == ofChunk[1]
              searchResults ==
                searchChunksV2([embedding |-> sourceEmbedding.embedding,
                                limit |-> Some(limit),
                                threshold |-> Some(threshold),
                                cursor |-> None,
                                model |-> Some(sourceEmbedding.model)])
              chunkOf(r) ==
                LET chunkId == Get(searchResults.window, r.id).chunkId
                IN IF chunkId \in IdsOf(chunks) THEN Some(chunkId) ELSE None
              filtered == SelectSeq(searchResults.results,
                                    LAMBDA r : chunkOf(r) # Some(args.chunkId))
          IN IF searchResults.threw
             THEN Threw("getSimilarChunks", args, limit, threshold,
                        searchResults.window)
             ELSE Returned("getSimilarChunks", args, limit, threshold,
                           searchResults.window, searchResults.scored,
                           filtered, None, FALSE)

\* The queries as steps: a query changes no table.
VectorSearchCounting(args) ==
  /\ ret' = vectorSearch(args)
  /\ vectorMemories' =
       AccessLoop(vectorMemories,
                  [i \in 1..Len(ret'.results) |-> ret'.results[i].id], now)
  /\ UNCHANGED <<chunks, chunkEmbeddings, now, session>>
VectorSearch(args) ==
  /\ ret' = vectorSearch(args)
  /\ UNCHANGED <<vectorMemories, chunks, chunkEmbeddings, now, session>>

SearchChunks(args) ==
  /\ ret' = searchChunks(args)
  /\ UNCHANGED <<vectorMemories, chunks, chunkEmbeddings, now, session>>

TopKSimilar(args, vectors) ==
  /\ args.limit # None
  /\ ret' = topKSimilar(args, vectors)
  /\ UNCHANGED <<vectorMemories, chunks, chunkEmbeddings, now, session>>

GetSimilarChunks(args) ==
  /\ ret' = getSimilarChunks(args)
  /\ UNCHANGED <<vectorMemories, chunks, chunkEmbeddings, now, session>>

\* Date.now() advances.
Tick ==
  /\ now < MaxTime
  /\ now' = now + 1
  /\ UNCHANGED <<vectorMemories, chunks, chunkEmbeddings, ret, session>>

---------------------------------------------------------------------------
\* A client paging through searchChunksV2: the first call has no cursor,
\* each later call passes the nextCursor of the page before, until a page
\* says hasMore = false.  The session remembers the pool it started on and
\* the scan windows of its pages.

NoSession ==
  [state |-> "idle", model |-> None, cursor |-> None, scanned |-> <<>>,
   pages |-> 0, pool |-> <<>>]

WindowIds(window) == [i \in 1..Len(window) |-> window[i]._id]

\* No session needs more pages than the pool has records, plus one.
MaxPages == MaxPool + 2

SearchChunksV2First(args) ==
  /\ args.cursor = None
  /\ ret' = searchChunksV2(args)
  /\ session' =
       IF ret'.threw THEN NoSession
       ELSE [state |-> IF ret'.hasMore THEN "open" ELSE "done",
             model |-> args.model,
             cursor |-> ret'.nextCursor,
             scanned |-> WindowIds(ret'.window),
             pages |-> 1,
             pool |-> chunkEmbeddings]
  /\ UNCHANGED <<vectorMemories, chunks, chunkEmbeddings, now>>

SearchChunksV2Next(args) ==
  /\ session.state = "open"
  /\ session.pages < MaxPages
  /\ args.cursor = session.cursor
  /\ args.model = session.model
  /\ ret' = searchChunksV2(args)
  /\ session' =
       IF ret'.threw THEN session
       ELSE [session EXCEPT
               !.state = IF ret'.hasMore THEN "open" ELSE "done",
               !.cursor = ret'.nextCursor,
               !.scanned = session.scanned \o WindowIds(ret'.window),
               !.pages = session.pages + 1]
  /\ UNCHANGED <<vectorMemories, chunks, chunkEmbeddings, now>>

---------------------------------------------------------------------------
\* The inputs the specifications draw.

Models == {"m1", "m2"}
ModelArgs == {None} \cup {Some(m) : m \in Models}

Item(chunkId, embedding, model) ==
  [chunkId |-> chunkId, embedding |-> embedding, model |-> model,
   dimensions |-> Len(embedding)]

ItemsOver(vectors) ==
  {Item(c, e, m) : c \in IdsOf(chunks), e \in vectors, m \in Models}

SeqsUpTo(S, n) == UNION {[1..k -> S] : k \in 1..n}

\* The arguments of a search; an argument left out is None.
Args(embedding, limit, threshold, cursor, model, memoryType, agentId) ==
  [embedding |-> embedding, limit |-> limit, threshold |-> threshold,
   cursor |-> cursor, model |-> model, memoryType |-> memoryType,
   agentId |-> agentId]

\* Before the first listDocuments call, the first library call and the first
\* page of a session.
NoListing ==
  [state |-> "idle", status |-> None, limit |-> None, cursor |-> None,
   listed |-> <<>>, previous |-> <<>>, last |-> <<>>, pages |-> 0]
NoCall == [op |-> "none"]
NoLog == [cur |-> <<>>, prev |-> <<>>]

\* No action in flight, no loop entered, no id handed out.
NoRun == [pc |-> "idle", calls |-> 0]
NoLoop == [state |-> "idle"]
NoIds == [documents |-> 0, chunks |-> 0, embeddings |-> 0]

NoReturn ==
  [op |-> "none", threw |-> FALSE,
   args |-> Args(<<>>, None, None, None, None, None, None),
   limit |-> DefaultLimit, threshold |-> DefaultThreshold,
   window |-> <<>>, scored |-> <<>>, results |-> <<>>,
   nextCursor |-> None, hasMore |-> FALSE]

Init ==
  /\ vectorMemories = <<>>
  /\ chunks = <<>>
  /\ chunkEmbeddings = <<>>
  /\ now = StartTime
  /\ ret = NoReturn
  /\ session = NoSession
  /\ documents = <<>>
  /\ listing = NoListing
  /\ calc = NoCall
  /\ log = NoLog
  /\ run = NoRun
  /\ loop = NoLoop
  /\ issued = NoIds

---------------------------------------------------------------------------
\* Spec: the stores fill the chunkEmbeddings pool (all embeddings belong to
\* one chunk), then clients page through it, one session after the other,
\* with no write once the first page has been asked for.

PageVectors == {<<1, 0>>}
PageArgs ==
  {Args(<<1, 0>>, l, None, c, m, None, None) :
     l \in {None, Some(1)}, c \in {None, session.cursor}, m \in ModelArgs}

\* The stores run before the first search.
Writing == ret.op = "none"

PageNext == \E args \in PageArgs : SearchChunksV2Next(args)

Next ==
  \/ Tick /\ Writing /\ UNCHANGED <<docVars, obsVars>>
  \/ \E m \in Models :
       /\ StoreChunkWithEmbedding(1, <<1, 0>>, m) /\ chunks = <<>> /\ Writing
       /\ UNCHANGED <<docVars, obsVars>>
  \/ \E id \in EmbeddingIds, item \in ItemsOver(PageVectors) :
       StoreChunkEmbedding(id, item) /\ Writing /\ UNCHANGED <<docVars, obsVars>>
  \/ \E ids \in SeqsUpTo(EmbeddingIds, MaxBatch),
        items \in SeqsUpTo(ItemsOver(PageVectors), MaxBatch) :
       /\ BatchStoreChunkEmbeddings(ids, items) /\ Writing
       /\ UNCHANGED <<docVars, obsVars>>
  \/ \E args \in PageArgs :
       /\ SearchChunksV2First(args) /\ session.state # "open"
       /\ UNCHANGED <<docVars, obsVars>>
  \/ PageNext /\ UNCHANGED <<docVars, obsVars>>

Spec == Init /\ [][Next]_vars

---------------------------------------------------------------------------
\* Claims about the pagination of searchChunksV2.

\* The records of the pool a session with this model filter pages through.
PoolOf(modelArg) ==
  IF modelArg = None THEN chunkEmbeddings
  ELSE SelectSeq(chunkEmbeddings, LAMBDA d : d.model = modelArg[1])

TimesScanned(id) ==
  Cardinality({i \in 1..Len(session.scanned) : session.scanned[i] = id})

\* (createdAt, _id) of a before that of b.
KeyBefore(a, b) ==
  \/ a.createdAt < b.createdAt
  \/ (a.createdAt = b.createdAt /\ StrLt(a._id, b._id))

PagedV2 == ret.op = "searchChunksV2" /\ ~ret.threw

\* C1: in a session over a fixed pool that has reached hasMore = false,
\* every record of the pool matching the session's model filter was in the
\* scan window of exactly one page.
C1_EveryRecordScannedOnce ==
  (session.state = "done" /\ session.pool = chunkEmbeddings) =>
    \A i \in 1..Len(PoolOf(session.model)) :
      TimesScanned(PoolOf(session.model)[i]._id) = 1

\* C2: a client that keeps passing the returned nextCursor over a fixed pool
\* reaches a page with hasMore = false: while the pages say hasMore = true
\* there have been at most as many of them as the pool has records, and the
\* next page can always be asked for.
C2_SessionTerminates ==
  /\ session.state = "open" =>
       /\ session.pages <= Len(PoolOf(session.model))
       /\ session.pages < MaxPages
  /\ session.state = "done" => session.pages <= Len(PoolOf(session.model)) + 1

\* C2's case: a session of more than one page, over a pool whose size is a
\* multiple of the scan cap, has ended.
C2_Witness ==
  /\ session.state = "done"
  /\ session.pages >= 2
  /\ session.model = None
  /\ Len(session.pool) = ScanCap

\* C8: a page asked for with the cursor of (t, id) scans only records with
\* createdAt < t, or createdAt = t and _id < id; the record the cursor was
\* minted from is not among them.
C8_WindowBeforeCursor ==
  PagedV2 =>
    \A t \in StartTime..MaxTime, id \in EmbeddingIds :
      ret.args.cursor = Some(DecimalString(t) \o <<Colon>> \o id) =>
        \A i \in 1..Len(ret.window) :
          /\ \/ ret.window[i].createdAt < t
             \/ (ret.window[i].createdAt = t /\ StrLt(ret.window[i]._id, id))
          /\ ~(ret.window[i].createdAt = t /\ ret.window[i]._id = id)

\* C8's case: a page asked for with a cursor scanned some record.
C8_Witness == PagedV2 /\ ret.args.cursor # None /\ ret.window # <<>>

\* C9: a page asked for without a cursor scans from the most recently
\* inserted record on, newest first, so that no record left out of the
\* window is newer than one in it.
C9_FirstPageIsNewest ==
  (PagedV2 /\ ret.args.cursor = None) =>
    LET pool == PoolOf(ret.args.model)
        window == ret.window
    IN /\ Len(window) = Min(ScanCap, Len(pool))
       /\ window # <<>> => window[1] = pool[Len(pool)]
       /\ \A i, j \in 1..Len(window) : i < j => KeyBefore(window[j], window[i])
       /\ \A k \in 1..Len(pool), i \in 1..Len(window) :
            (\A j \in 1..Len(window) : window[j] # pool[k]) =>
              pool[k].createdAt <= window[i].createdAt

\* C10: a page whose scan window holds fewer records than the scan cap
\* returns hasMore = false and nextCursor = null.
C10_ShortWindowEndsSession ==
  (PagedV2 /\ Len(ret.window) < ScanCap) =>
    (ret.hasMore = FALSE /\ ret.nextCursor = None)

\* The limits and thresholds a caller may pass on one page.
LimitChoices == {None, Some(0), Some(1), Some(2)}
ThresholdChoices == {None, Some(Rat(0, 1)), Some(Rat(1, 1)), Some(Rat(2, 1))}

\* C11: over the same pool and with the same cursor and model filter, the
\* page returns the same nextCursor and hasMore, and scans the same window,
\* whatever limit and threshold the caller passes.
C11_CursorIgnoresLimitAndThreshold ==
  PagedV2 =>
    \A l \in LimitChoices, t \in ThresholdChoices :
      LET other == searchChunksV2([ret.args EXCEPT !.limit = l, !.threshold = t])
      IN /\ ~other.threw
         /\ other.nextCursor = ret.nextCursor
         /\ other.hasMore = ret.hasMore
         /\ other.window = ret.window

\* C11's case: a full page that returned fewer results than it scanned, the
\* last returned result not being the last scanned record.
C11_Witness ==
  /\ PagedV2
  /\ ret.hasMore
  /\ ret.results # <<>>
  /\ Len(ret.results) < Len(ret.window)
  /\ ret.results[Len(ret.results)].id # ret.window[Len(ret.window)]._id

---------------------------------------------------------------------------
\* SpecRank: a behaviour fills one candidate set, either vectorMemories or
\* the chunks and the chunkEmbeddings of the first chunk, and then one of
\* the four searches ranks it.

\* Most candidates the stores of SpecRank put in chunkEmbeddings.
MaxRank == 2

RankVectors == {<<1, 0>>, <<3, 4>>, <<0, 0>>}
\* The magnitudes a caller of storeVectorMemory passes.
Magnitudes == {0, 1, 5}
\* The second query vector has another dimension than the stored embeddings.
RankArgs ==
  {Args(<<1, 0>>, l, t, None, None, None, None) :
     l \in {None, Some(0), Some(1)},
     t \in {None, Some(Rat(0, 1)), Some(Rat(3, 5))}}
  \cup {Args(<<1>>, l, None, None, None, None, None) : l \in {None, Some(1)}}

\* The id the database hands out next in SpecRank.
NextEmbeddingId(k) == <<107, 97 + Len(chunkEmbeddings) + k>>

RankItems == {Item(1, e, "m1") : e \in RankVectors}

\* The in-memory candidates of topKSimilar: the stored memories, with their
\* cached magnitude or without one.
CandidateVectors(cached) ==
  [i \in 1..Len(vectorMemories) |->
     [_id |-> vectorMemories[i]._id,
      embedding |-> vectorMemories[i].embedding,
      magnitude |-> IF cached THEN Some(vectorMemories[i].magnitude) ELSE None]]

RankNext ==
  \/ \E e \in RankVectors, m \in Magnitudes :
       /\ StoreVectorMemory("semantic", None, e, m) /\ chunks = <<>> /\ Writing
       /\ UNCHANGED <<docVars, obsVars>>
  \/ \E e \in RankVectors :
       /\ StoreChunkWithEmbedding(1, e, "m1") /\ vectorMemories = <<>> /\ Writing
       /\ UNCHANGED <<docVars, obsVars>>
  \/ \E item \in RankItems :
       /\ Len(chunkEmbeddings) < MaxRank /\ Writing
       /\ StoreChunkEmbedding(NextEmbeddingId(0), item)
       /\ UNCHANGED <<docVars, obsVars>>
  \/ \E items \in [1..2 -> RankItems] :
       /\ Len(chunkEmbeddings) + 2 <= MaxRank /\ Writing
       /\ BatchStoreChunkEmbeddings(<<NextEmbeddingId(0), NextEmbeddingId(1)>>, items)
       /\ UNCHANGED <<docVars, obsVars>>
  \/ \E args \in RankArgs :
       VectorSearch(args) /\ Writing /\ UNCHANGED <<docVars, obsVars>>
  \/ \E args \in RankArgs :
       SearchChunks(args) /\ Writing /\ UNCHANGED <<docVars, obsVars>>
  \/ \E args \in RankArgs :
       SearchChunksV2First(args) /\ Writing /\ UNCHANGED <<docVars, obsVars>>
  \/ \E args \in RankArgs, cached \in BOOLEAN :
       /\ TopKSimilar(args, CandidateVectors(cached)) /\ Writing
       /\ UNCHANGED <<docVars, obsVars>>

SpecRank == Init /\ [][RankNext]_vars

---------------------------------------------------------------------------
\* Claims about the stores and the ranking.

Searched == ret.op # "none" /\ ~ret.threw

\* The limit and the threshold the caller asked for: the argument when it is
\* supplied, the documented default when it is left out.
LimitAsked ==
  IF ret.args.limit # None THEN ret.args.limit[1] ELSE DefaultLimit
ThresholdAsked ==
  IF ret.args.threshold # None THEN ret.args.threshold[1]
  ELSE IF ret.op = "topKSimilar" THEN Rat(0, 1) ELSE DefaultThreshold

Returns(id) == \E j \in 1..Len(ret.results) : ret.results[j].id = id

\* The place of a returned result in the scanned candidate list.
ScanPlace(id) == CHOOSE i \in 1..Len(ret.scored) : ret.scored[i].id = id

IsNorm(m, e) == m >= 0 /\ m * m = SumProducts(e, e)

\* C3: every stored record that carries an embedding and a magnitude has the
\* L2 norm of its embedding as its magnitude.
C3_MagnitudeIsNorm ==
  /\ \A i \in 1..Len(vectorMemories) :
       IsNorm(vectorMemories[i].magnitude, vectorMemories[i].embedding)
  /\ \A i \in 1..Len(chunks) :
       (IsSome(chunks[i].embedding) /\ IsSome(chunks[i].magnitude)) =>
         IsNorm(chunks[i].magnitude[1], chunks[i].embedding[1])
  /\ \A i \in 1..Len(chunkEmbeddings) :
       IsNorm(chunkEmbeddings[i].magnitude, chunkEmbeddings[i].embedding)

\* C4: a search returns min(limit, n) results, n the number of scanned
\* candidates with similarity >= threshold, and leaves out no such candidate
\* whose similarity is higher than a returned one's.
C4_ReturnsTopLimit ==
  Searched =>
    LET n == Cardinality({i \in 1..Len(ret.scored) :
                            RatGe(ret.scored[i].similarity, ThresholdAsked)})
    IN /\ Len(ret.results) = Min(LimitAsked, n)
       /\ \A i \in 1..Len(ret.scored), j \in 1..Len(ret.results) :
            (RatGe(ret.scored[i].similarity, ThresholdAsked)
             /\ ~Returns(ret.scored[i].id)) =>
              ~RatGt(ret.scored[i].similarity, ret.results[j].similarity)

\* C5: every returned result has similarity >= the threshold in force, and a
\* candidate whose similarity equals the threshold is left out only when the
\* limit is already filled.
C5_ThresholdInclusive ==
  Searched =>
    /\ \A j \in 1..Len(ret.results) :
         RatGe(ret.results[j].similarity, ret.threshold)
    /\ \A i \in 1..Len(ret.scored) :
         (RatEq(ret.scored[i].similarity, ret.threshold)
          /\ ~Returns(ret.scored[i].id)) =>
           Len(ret.results) >= ret.limit

\* C5's case: a returned result whose similarity equals the threshold.
C5_Witness ==
  /\ Searched
  /\ \E j \in 1..Len(ret.results) :
       RatEq(ret.results[j].similarity, ret.threshold)

\* C6: the results are in non-increasing order of similarity, and results of
\* equal similarity are in the order of the scanned candidate list.
C6_SortedStable ==
  Searched =>
    \A i, j \in 1..Len(ret.results) :
      i < j =>
        /\ RatGe(ret.results[i].similarity, ret.results[j].similarity)
        /\ RatEq(ret.results[i].similarity, ret.results[j].similarity) =>
             ScanPlace(ret.results[i].id) < ScanPlace(ret.results[j].id)

\* C6's case: two returned results of equal similarity.
C6_Witness ==
  /\ Searched
  /\ \E i, j \in 1..Len(ret.results) :
       i < j /\ RatEq(ret.results[i].similarity, ret.results[j].similarity)

\* A query vector whose dimension is not that of the stored embeddings.
InvalidQuery(query) == \A e \in RankVectors : Len(query) # Len(e)

\* C7: a search with an invalid query vector fails; it never returns a
\* result, whatever the candidate pool holds.
C7_InvalidQueryFails ==
  (ret.op # "none" /\ InvalidQuery(ret.args.embedding)) => ret.threw

---------------------------------------------------------------------------
\* SpecPages: the stores fill the pool, then a client runs a pagination
\* session to its end, and then a second one; each session keeps the query,
\* limit, threshold and model filter of its first page.  log holds what the
\* pages of both sessions returned.

\* What one page returned to the caller, with the arguments of the call.
Page(r) ==
  [embedding |-> r.args.embedding, limit |-> r.args.limit,
   threshold |-> r.args.threshold, model |-> r.args.model,
   results |-> r.results, nextCursor |-> r.nextCursor, hasMore |-> r.hasMore]

PagesVectors == {<<1, 0>>, <<3, 4>>}
PagesItems == {Item(1, e, m) : e \in PagesVectors, m \in {"m1"}}
PagesArgs ==
  {Args(<<1, 0>>, l, t, c, m, None, None) :
     l \in {None, Some(1)}, t \in {None, Some(Rat(3, 5))},
     c \in {None, session.cursor}, m \in {None, Some("m1")}}

SessionFirst(args) ==
  /\ session.state # "open"
  /\ log.prev = <<>>
  /\ SearchChunksV2First(args)
  /\ log' = [prev |-> log.cur, cur |-> <<Page(ret')>>]
  /\ UNCHANGED <<docVars, calc>>

SessionNext(args) ==
  /\ session.state = "open"
  /\ args.embedding = log.cur[1].embedding
  /\ args.limit = log.cur[1].limit
  /\ args.threshold = log.cur[1].threshold
  /\ SearchChunksV2Next(args)
  /\ log' = [log EXCEPT !.cur = Append(@, Page(ret'))]
  /\ UNCHANGED <<docVars, calc>>

PagesNext ==
  \/ Tick /\ Writing /\ UNCHANGED <<docVars, obsVars>>
  \/ /\ StoreChunkWithEmbedding(1, <<1, 0>>, "m1") /\ chunks = <<>> /\ Writing
     /\ UNCHANGED <<docVars, obsVars>>
  \/ \E item \in PagesItems :
       /\ StoreChunkEmbedding(NextEmbeddingId(0), item) /\ Writing
       /\ UNCHANGED <<docVars, obsVars>>
  \/ \E args \in PagesArgs : SessionFirst(args)
  \/ \E args \in PagesArgs : SessionNext(args)

SpecPages == Init /\ [][PagesNext]_vars

\* The second session was run, to its end, with the call of the first.
SameSessionTwice ==
  /\ session.state = "done"
  /\ log.prev # <<>>
  /\ log.cur[1].embedding = log.prev[1].embedding
  /\ log.cur[1].limit = log.prev[1].limit
  /\ log.cur[1].threshold = log.prev[1].threshold
  /\ log.cur[1].model = log.prev[1].model

---------------------------------------------------------------------------
\* SpecAccess: the stores fill either vectorMemories or the chunks and the
\* chunkEmbeddings of its chunks; from the first search on, searches and
\* updateAccessCounts calls follow one another in any order, as time passes.

\* No memory is counted as accessed more often than this.
MaxAccess == 2

AccessVectors == {<<1, 0>>, <<3, 4>>}
AccessArgs ==
  {Args(<<1, 0>>, None, None, None, None, None, None),
   Args(<<1, 0>>, Some(1), Some(Rat(3, 5)), None, None, None, None),
   Args(<<1>>, None, None, None, None, None, None)}

\* The arguments of getSimilarChunks.
SimilarArgs ==
  {[chunkId |-> c, limit |-> lt[1], threshold |-> lt[2]] :
     c \in 1..MaxChunks, lt \in {<<None, None>>, <<Some(1), Some(Rat(3, 5))>>}}

MemoryIdLists == SeqsUpTo(1..MaxMemories, 2)

AccessNext ==
  \/ Tick /\ ~Writing /\ UNCHANGED <<docVars, obsVars>>
  \/ \E e \in AccessVectors :
       /\ StoreVectorMemory("semantic", None, e, calculateMagnitude(e))
       /\ chunks = <<>> /\ Writing
       /\ UNCHANGED <<docVars, obsVars>>
  \/ /\ StoreChunkWithEmbedding(1, <<1, 0>>, "m1")
     /\ vectorMemories = <<>> /\ Writing
     /\ UNCHANGED <<docVars, obsVars>>
  \/ \E item \in {Item(c, e, "m1") : c \in IdsOf(chunks), e \in AccessVectors} :
       /\ Len(chunkEmbeddings) < MaxRank /\ Writing
       /\ StoreChunkEmbedding(NextEmbeddingId(0), item)
       /\ UNCHANGED <<docVars, obsVars>>
  \/ \E memoryIds \in MemoryIdLists :
       /\ \A i \in 1..Len(vectorMemories) :
            vectorMemories[i].accessCount + Len(memoryIds) <= MaxAccess
       /\ vectorMemories # <<>> /\ ~Writing
       /\ UpdateAccessCounts(memoryIds)
       /\ UNCHANGED <<docVars, obsVars>>
  \/ \E args \in AccessArgs :
       VectorSearch(args) /\ chunks = <<>> /\ UNCHANGED <<docVars, obsVars>>
  \/ \E args \in AccessArgs :
       SearchChunks(args) /\ chunks # <<>> /\ UNCHANGED <<docVars, obsVars>>
  \/ \E args \in AccessArgs :
       /\ SearchChunksV2First(args) /\ chunks # <<>>
       /\ UNCHANGED <<docVars, obsVars>>
  \/ \E args \in SimilarArgs :
       GetSimilarChunks(args) /\ chunks # <<>> /\ UNCHANGED <<docVars, obsVars>>

SpecAccess == Init /\ [][AccessNext]_vars

\* Two copies of a memory that differ at most in accessCount, lastAccessedAt.
SameButAccess(m1, m2) ==
  \A f \in DOMAIN m1 \ {"accessCount", "lastAccessedAt"} : m1[f] = m2[f]

\* C13: after any number of updateAccessCounts calls, vectorSearch with the
\* arguments of a call made before them returns the ranked list of ids and
\* similarities that call returned, and the memories it scanned differ from
\* what they were in the accessCount and lastAccessedAt fields only.
C13_AccessCountsKeepRanking ==
  (ret.op = "vectorSearch" /\ ~ret.threw) =>
    LET again == vectorSearch(ret.args)
    IN /\ again.results = ret.results
       /\ Len(again.window) = Len(ret.window)
       /\ \A i \in 1..Len(ret.window) :
            SameButAccess(ret.window[i], again.window[i])

\* C13's case: a memory that a vectorSearch call returned has been counted
\* as accessed since, next to a memory of another similarity.
C13_Witness ==
  /\ ret.op = "vectorSearch" /\ ~ret.threw
  /\ Len(ret.window) = 2
  /\ ~RatEq(ret.scored[1].similarity, ret.scored[2].similarity)
  /\ \E j \in 1..Len(ret.results), i \in 1..Len(ret.window) :
       /\ ret.window[i]._id = ret.results[j].id
       /\ Get(vectorMemories, ret.results[j].id).accessCount
            > ret.window[i].accessCount

\* A step of one of the search operations: ret' is what that operation
\* returns, and the step is the operation's.
SearchStep ==
  \/ ret'.op = "vectorSearch" /\ \E args \in AccessArgs : VectorSearch(args)
  \/ ret'.op = "searchChunks" /\ \E args \in AccessArgs : SearchChunks(args)
  \/ ret'.op = "searchChunksV2"
       /\ \E args \in AccessArgs : SearchChunksV2First(args)
  \/ ret'.op = "getSimilarChunks"
       /\ \E args \in SimilarArgs : GetSimilarChunks(args)

\* C14: a step of vectorSearch, searchChunks, searchChunksV2 or
\* getSimilarChunks leaves every table as it was, whether the search
\* returns results, returns none, or fails.
C14_SearchesReadOnly ==
  [][SearchStep =>
       UNCHANGED <<vectorMemories, chunks, chunkEmbeddings, documents>>]_vars

\* C14's cases: searches over a table that is not empty have returned
\* results, have returned none, and have failed.
C14_Witness ==
  /\ ret.op = "getSimilarChunks" /\ ~ret.threw /\ ret.results = <<>>
  /\ ret.window # <<>>
  /\ chunkEmbeddings # <<>>

---------------------------------------------------------------------------
\* Claims about empty results and about the limit and threshold in force,
\* under SpecRank.

\* The query has the dimension of every candidate the search scanned.
QueryFitsWindow ==
  \A i \in 1..Len(ret.window) :
    Len(ret.window[i].embedding) = Len(ret.args.embedding)

\* No scanned candidate has a similarity >= the threshold asked for.
NoneReachesThreshold ==
  \A i \in 1..Len(ret.scored) :
    ~RatGe(ret.scored[i].similarity, ThresholdAsked)

\* C15: a search over no candidates, or over candidates none of which
\* reaches the threshold, returns an empty result list and does not fail.
C15_EmptyResultIsSuccess ==
  (ret.op # "none" /\ QueryFitsWindow /\ (~ret.threw => NoneReachesThreshold)) =>
    (~ret.threw /\ ret.results = <<>>)

\* C15's case: a search scanned candidates and none reached the threshold.
C15_Witness ==
  /\ Searched
  /\ ret.window # <<>>
  /\ QueryFitsWindow
  /\ NoneReachesThreshold
  /\ ret.results = <<>>

\* C19: vectorSearch, searchChunks and searchChunksV2 rank with the limit and
\* the threshold the caller supplied, whatever number it is, and with the
\* defaults 10 and 0.7 only when the argument is left out.
C19_SuppliedArgsInForce ==
  ret.op \in {"vectorSearch", "searchChunks", "searchChunksV2"} =>
    /\ ret.limit = LimitAsked
    /\ RatEq(ret.threshold, ThresholdAsked)

---------------------------------------------------------------------------
\* SpecMath: callers apply the functions of convex/lib/vectors.ts to vectors
\* of one, two and three dimensions, zero vectors and negative entries among
\* them, and to magnitudes that are or are not the vectors' norms.

MathVectors ==
  {<<0>>, <<1>>, <<-1>>,
   <<0, 0>>, <<1, 0>>, <<0, 1>>, <<3, 4>>, <<-3, 4>>,
   <<0, 0, 0>>, <<1, 2, 2>>}
MathMagnitudes == {0, 1, 3, 5}

CallCosineSimilarity(a, b) ==
  /\ calc' = [op |-> "cosineSimilarity", a |-> a, b |-> b,
              value |-> cosineSimilarity(a, b)]
  /\ UNCHANGED <<vectorMemories, chunks, chunkEmbeddings, now, ret, session,
                 docVars, log>>

CallCosineSimilarityWithMagnitude(a, b, magnitudeA, magnitudeB) ==
  /\ calc' = [op |-> "cosineSimilarityWithMagnitude", a |-> a, b |-> b,
              magnitudeA |-> magnitudeA, magnitudeB |-> magnitudeB,
              value |-> cosineSimilarityWithMagnitude(a, b, magnitudeA, magnitudeB)]
  /\ UNCHANGED <<vectorMemories, chunks, chunkEmbeddings, now, ret, session,
                 docVars, log>>

CallDotProduct(a, b) ==
  /\ calc' = [op |-> "dotProduct", a |-> a, b |-> b, value |-> dotProduct(a, b)]
  /\ UNCHANGED <<vectorMemories, chunks, chunkEmbeddings, now, ret, session,
                 docVars, log>>

CallEuclideanDistance(a, b) ==
  /\ calc' = [op |-> "euclideanDistance", a |-> a, b |-> b,
              value |-> euclideanDistance(a, b)]
  /\ UNCHANGED <<vectorMemories, chunks, chunkEmbeddings, now, ret, session,
                 docVars, log>>

\* The candidates of topKSimilar over these vectors: with the magnitude
\* calculateMagnitude gives cached on each, and with none.
MathCandidates(vectors, cached) ==
  [i \in 1..Len(vectors) |->
     [_id |-> i, embedding |-> vectors[i],
      magnitude |-> IF cached THEN Some(calculateMagnitude(vectors[i]))
                    ELSE None]]

\* topKSimilar on the same query and vectors, once over candidates with
\* cached magnitudes and once over candidates without.
CallTopKSimilar(args, vectors) ==
  /\ calc' = [op |-> "topKSimilar", a |-> args.embedding, vectors |-> vectors,
              cached |-> topKSimilar(args, MathCandidates(vectors, TRUE)),
              plain |-> topKSimilar(args, MathCandidates(vectors, FALSE))]
  /\ UNCHANGED <<vectorMemories, chunks, chunkEmbeddings, now, ret, session,
                 docVars, log>>

MathArgs ==
  {Args(q, Some(k), t, None, None, None, None) :
     q \in {<<1, 0>>, <<3, 4>>, <<0, 0>>}, k \in {1, 2},
     t \in {None, Some(Rat(3, 5))}}

\* One call in each behaviour: the functions keep nothing between calls.
FirstCall == calc.op = "none"

MathNext ==
  \/ \E a, b \in MathVectors : FirstCall /\ CallCosineSimilarity(a, b)
  \/ \E a, b \in MathVectors, magnitudeA, magnitudeB \in MathMagnitudes :
       FirstCall /\ CallCosineSimilarityWithMagnitude(a, b, magnitudeA, magnitudeB)
  \/ \E a, b \in MathVectors : FirstCall /\ CallDotProduct(a, b)
  \/ \E a, b \in MathVectors : FirstCall /\ CallEuclideanDistance(a, b)
  \/ \E args \in MathArgs, vectors \in SeqsUpTo(MathVectors, 2) :
       FirstCall /\ CallTopKSimilar(args, vectors)

SpecMath == Init /\ [][MathNext]_vars

IsZeroVector(v) == \A i \in 1..Len(v) : v[i] = 0

\* C16: cosineSimilarity, cosineSimilarityWithMagnitude, dotProduct and
\* euclideanDistance raise the dimension-mismatch error on every pair of
\* vectors of different lengths, zero vectors and zero magnitudes included.
C16_DimensionMismatchRaises ==
  (calc.op \in {"cosineSimilarity", "cosineSimilarityWithMagnitude",
                "dotProduct", "euclideanDistance"}
   /\ Len(calc.a) # Len(calc.b)) =>
    calc.value = DimensionMismatch

\* C16's case: vectors of different lengths, one of them all zeros, with a
\* zero magnitude supplied.
C16_Witness ==
  /\ calc.op = "cosineSimilarityWithMagnitude"
  /\ Len(calc.a) # Len(calc.b)
  /\ IsZeroVector(calc.a) /\ calc.magnitudeA = 0
  /\ calc.value.threw

\* C17: on vectors of equal length, cosineSimilarity returns exactly 0 when
\* one of them is all zeros and cosineSimilarityWithMagnitude returns
\* exactly 0 when one supplied magnitude is 0; neither raises, neither
\* returns NaN.
C17_ZeroVectorGivesZero ==
  /\ (calc.op = "cosineSimilarity" /\ Len(calc.a) = Len(calc.b)
      /\ (IsZeroVector(calc.a) \/ IsZeroVector(calc.b))) =>
       calc.value = Rat(0, 1)
  /\ (calc.op = "cosineSimilarityWithMagnitude" /\ Len(calc.a) = Len(calc.b)
      /\ (calc.magnitudeA = 0 \/ calc.magnitudeB = 0)) =>
       calc.value = Rat(0, 1)

\* C17's case: cosineSimilarity of a zero vector and a vector that is not.
C17_Witness ==
  /\ calc.op = "cosineSimilarity"
  /\ Len(calc.a) = Len(calc.b)
  /\ IsZeroVector(calc.a) /\ ~IsZeroVector(calc.b)
  /\ calc.value = Rat(0, 1)

\* C18: with the magnitudes calculateMagnitude gives for a and b,
\* cosineSimilarityWithMagnitude returns what cosineSimilarity(a, b)
\* returns, and topKSimilar returns the same ranked list over candidates
\* with those magnitudes cached as over candidates with none.
C18_CachedMagnitudeAgrees ==
  /\ (calc.op = "cosineSimilarityWithMagnitude" /\ Len(calc.a) = Len(calc.b)
      /\ calc.magnitudeA = calculateMagnitude(calc.a)
      /\ calc.magnitudeB = calculateMagnitude(calc.b)) =>
       calc.value = cosineSimilarity(calc.a, calc.b)
  /\ calc.op = "topKSimilar" =>
       /\ calc.cached.threw = calc.plain.threw
       /\ calc.cached.results = calc.plain.results

\* C18's case: topKSimilar ranked two candidates of different similarity,
\* neither of norm 0 or 1.
C18_Witness ==
  /\ calc.op = "topKSimilar"
  /\ Len(calc.cached.results) = 2
  /\ ~RatEq(calc.cached.results[1].similarity, calc.cached.results[2].similarity)
  /\ \A i \in 1..Len(calc.vectors) : calculateMagnitude(calc.vectors[i]) > 1

---------------------------------------------------------------------------
\* convex/functions/documents.ts: the documents table and listDocuments.

\* Most documents in the table.
MaxDocuments == 3
\* Most pages a client asks listDocuments for in one session.
MaxListPages == 3

\* createDocument: a new document, of status "new", under an id the
\* database never handed out before.
CreateDocument(content) ==
  /\ issued.documents < MaxDocuments
  /\ documents' = Append(documents,
       [_id |-> issued.documents + 1,
        content |-> content,
        status |-> "new",
        createdAt |-> now,
        updatedAt |-> now,
        indexedAt |-> None])
  /\ issued' = [issued EXCEPT !.documents = @ + 1]
  /\ UNCHANGED listing

\* updateDocumentStatus: status and updatedAt, and indexedAt when it is given
\* (and truthy) or when the status becomes "indexed".
UpdateDocumentStatus(documentId, status, indexedAtArg) ==
  /\ documentId \in IdsOf(documents)
  /\ documents' =
       Patch(documents, documentId,
             IF IsSome(indexedAtArg) /\ indexedAtArg[1] # 0
             THEN [status |-> status, updatedAt |-> now, indexedAt |-> indexedAtArg]
             ELSE IF status = "indexed"
             THEN [status |-> status, updatedAt |-> now, indexedAt |-> Some(now)]
             ELSE [status |-> status, updatedAt |-> now])
  /\ UNCHANGED listing

\* listDocuments' handler on args [limit, cursor, status]: the first `limit`
\* documents of the table, or of the by_status index on args.status; the
\* handler does not read args.cursor.
listDocuments(args) ==
  LET limit == LimitInForce(args.limit)
      found == Take(IF IsSome(args.status)
                    THEN SelectSeq(documents, LAMBDA d : d.status = args.status[1])
                    ELSE documents,
                    limit)
  IN [documents |-> found,
      nextCursor |-> IF Len(found) = limit THEN Some(found[Len(found)]._id)
                     ELSE None]

\* A client paging through listDocuments: the first call has no cursor, each
\* later call passes the nextCursor of the page before, with the same limit
\* and status, until nextCursor is null.
ListDocumentsFirst(args) ==
  /\ args.cursor = None
  /\ listing.state = "idle"
  /\ LET page == listDocuments(args)
     IN listing' =
          [state |-> IF page.nextCursor = None THEN "done" ELSE "open",
           status |-> args.status, limit |-> args.limit,
           cursor |-> page.nextCursor,
           listed |-> WindowIds(page.documents),
           previous |-> <<>>,
           last |-> WindowIds(page.documents),
           pages |-> 1]
  /\ UNCHANGED documents

ListDocumentsNext(args) ==
  /\ listing.state = "open"
  /\ listing.pages < MaxListPages
  /\ args.cursor = listing.cursor
  /\ args.status = listing.status
  /\ args.limit = listing.limit
  /\ LET page == listDocuments(args)
     IN listing' =
          [listing EXCEPT
             !.state = IF page.nextCursor = None THEN "done" ELSE "open",
             !.cursor = page.nextCursor,
             !.listed = listing.listed \o WindowIds(page.documents),
             !.previous = listing.last,
             !.last = WindowIds(page.documents),
             !.pages = listing.pages + 1]
  /\ UNCHANGED documents

\* SpecDocs: documents are created and their status set, then a client pages
\* through listDocuments, with no write once the first page was asked for.
DocStatuses == {"new", "indexed"}
ListArgs ==
  {[limit |-> l, cursor |-> c, status |-> st] :
     l \in {None, Some(1), Some(2)},
     c \in {None, listing.cursor},
     st \in {None} \cup {Some(x) : x \in DocStatuses}}

DocsNext ==
  \/ /\ CreateDocument(None) /\ listing.state = "idle"
     /\ UNCHANGED <<vectorMemories, chunks, chunkEmbeddings, now, ret, session,
                    obsVars, pipeVars>>
  \/ \E d \in 1..MaxDocuments, st \in DocStatuses, at \in {None, Some(StartTime)} :
       /\ UpdateDocumentStatus(d, st, at) /\ listing.state = "idle"
       /\ Get(documents, d).status = "new"
       /\ UNCHANGED <<vectorMemories, chunks, chunkEmbeddings, now, ret, session,
                      obsVars, pipeVars, issued>>
  \/ \E args \in ListArgs :
       /\ ListDocumentsFirst(args)
       /\ UNCHANGED <<vectorMemories, chunks, chunkEmbeddings, now, ret, session,
                      obsVars, pipeVars, issued>>
  \/ \E args \in ListArgs :
       /\ ListDocumentsNext(args)
       /\ UNCHANGED <<vectorMemories, chunks, chunkEmbeddings, now, ret, session,
                      obsVars, pipeVars, issued>>

SpecDocs == Init /\ [][DocsNext]_vars

\* The documents a listing with this status filter is to visit.
Matching(statusArg) ==
  IF statusArg = None THEN documents
  ELSE SelectSeq(documents, LAMBDA d : d.status = statusArg[1])

\* C20: the page listDocuments returns for the nextCursor of the page before
\* holds none of that page's documents, and a session followed until
\* nextCursor is null has listed every matching document exactly once.
C20_ListDocumentsPaginates ==
  /\ listing.pages >= 2 =>
       \A i \in 1..Len(listing.last), j \in 1..Len(listing.previous) :
         listing.last[i] # listing.previous[j]
  /\ listing.state = "done" =>
       \A k \in 1..Len(Matching(listing.status)) :
         Cardinality({i \in 1..Len(listing.listed) :
                        listing.listed[i] = Matching(listing.status)[k]._id}) = 1

---------------------------------------------------------------------------
\* convex/functions/chunking.ts: chunkDocument.
\* A document's content is the list of words content.split(/\s+/) gives; a
\* word is a number, 0 standing for the empty string that split yields at a
\* leading or trailing blank (and as the only word of the empty content).

CHUNK_SIZE == 512
CHUNK_OVERLAP == 128
\* WORDS_PER_TOKEN = 0.75, as a fraction.
WordsPerTokenNum == 3
WordsPerTokenDen == 4

\* Math.floor(tokens * WORDS_PER_TOKEN), for tokens >= 0.
FloorWords(tokens) == (tokens * WordsPerTokenNum) \div WordsPerTokenDen

\* `args.chunkSize || CHUNK_SIZE`, `args.chunkOverlap || CHUNK_OVERLAP`.
ChunkSizeInForce(chunkSizeArg) ==
  IF IsSome(chunkSizeArg) /\ chunkSizeArg[1] # 0 THEN chunkSizeArg[1]
  ELSE CHUNK_SIZE
ChunkOverlapInForce(chunkOverlapArg) ==
  IF IsSome(chunkOverlapArg) /\ chunkOverlapArg[1] # 0 THEN chunkOverlapArg[1]
  ELSE CHUNK_OVERLAP

\* `!document.content`: no content, or the empty string.
NoContent(content) == content = None \/ content = Some(<<0>>)

\* words.slice(start, end)
SliceWords(words, start, end) ==
  LET n == Len(words)
      from == IF start < 0 THEN Max(n + start, 0) ELSE Min(start, n)
      to == IF end < 0 THEN Max(n + end, 0) ELSE Min(end, n)
  IN SubSeq(words, from + 1, to)

\* chunkWords.join(" ").trim().length === 0
IsBlank(chunkWords) == \A k \in 1..Len(chunkWords) : chunkWords[k] = 0

\* The loop's step, i += wordsPerChunk - overlapWords.
LoopStep(chunkSizeArg, chunkOverlapArg) ==
  FloorWords(ChunkSizeInForce(chunkSizeArg))
  - FloorWords(ChunkOverlapInForce(chunkOverlapArg))

\* Most iterations of the loop the model follows.
MaxIterations == 4

\* chunkDocument's handler up to the loop.
ChunkLoopEnter(content, chunkSizeArg, chunkOverlapArg) ==
  /\ loop.state = "idle"
  /\ loop' =
       IF NoContent(content) THEN [state |-> "threw"]
       ELSE [state |-> "running",
             words |-> content[1],
             wordsPerChunk |-> FloorWords(ChunkSizeInForce(chunkSizeArg)),
             overlapWords |-> FloorWords(ChunkOverlapInForce(chunkOverlapArg)),
             i |-> 0, chunkIndex |-> 0, iterations |-> 0]
  /\ UNCHANGED <<vectorMemories, chunks, chunkEmbeddings, now, ret, session,
                 documents, listing, obsVars, run, issued>>

\* One iteration: a chunk that is not blank takes the next chunkIndex; the
\* for statement's update runs after `continue` as well.
ChunkLoopIterate ==
  /\ loop.state = "running"
  /\ loop.i < Len(loop.words)
  /\ loop.iterations < MaxIterations
  /\ LET chunkWords == SliceWords(loop.words, loop.i, loop.i + loop.wordsPerChunk)
     IN loop' = [loop EXCEPT
                   !.chunkIndex = IF IsBlank(chunkWords) THEN @ ELSE @ + 1,
                   !.i = @ + (loop.wordsPerChunk - loop.overlapWords),
                   !.iterations = @ + 1]
  /\ UNCHANGED <<vectorMemories, chunks, chunkEmbeddings, now, ret, session,
                 documents, listing, obsVars, run, issued>>

\* The loop's condition fails: the handler goes on to patch and return.
ChunkLoopExit ==
  /\ loop.state = "running"
  /\ ~(loop.i < Len(loop.words))
  /\ loop' = [loop EXCEPT !.state = "returned"]
  /\ UNCHANGED <<vectorMemories, chunks, chunkEmbeddings, now, ret, session,
                 documents, listing, obsVars, run, issued>>

\* SpecChunk: chunkDocument's loop on each content and each pair of
\* arguments the validator accepts, among them none, 0 and small sizes.
Contents == {Some(<<0>>), Some(<<1, 2>>), Some(<<1, 2, 3>>), Some(<<0, 1, 0>>)}
ChunkSizeArgs == {None, Some(1), Some(2), Some(3), Some(4)}
ChunkOverlapArgs == {None, Some(0), Some(1), Some(2)}

ChunkNext ==
  \/ \E content \in Contents, chunkSizeArg \in ChunkSizeArgs,
        chunkOverlapArg \in ChunkOverlapArgs :
       ChunkLoopEnter(content, chunkSizeArg, chunkOverlapArg)
  \/ ChunkLoopIterate
  \/ ChunkLoopExit

SpecChunk == Init /\ [][ChunkNext]_vars

\* C27: chunkDocument's loop index advances by a positive step on every
\* content and every chunkSize and chunkOverlap, so that the loop ends.
C27_LoopAdvances ==
  loop.state = "running" => loop.wordsPerChunk - loop.overlapWords > 0

---------------------------------------------------------------------------
\* convex/functions/chunking.ts and documents.ts: the ingestion pipeline.
\* A mutation is one step; an action (processDocument, rechunkDocument) is
\* one step per mutation, query or action it runs, and the mutations of
\* other clients run in between.

\* The errors of the pipeline.
NoError == "none"
ErrNoContent == "Document not found or has no content"
ErrLimit == "the mutation ran into the limits of the runtime"
ErrApi == "Voyage AI API error"
ErrType == "TypeError: embeddingResults[index] is undefined"
ErrMissing == "update on a nonexistent document"

\* withIndex("by_document", q => q.eq("documentId", documentId)).collect()
ChunksByDocumentFirst(table, documentId) ==
  LET found == SelectSeq(table, LAMBDA c : c.documentId = documentId)
  IN IF found = <<>> THEN <<>> ELSE <<Head(found)>>
ChunksByDocument(table, documentId) ==
  SelectSeq(table, LAMBDA c : c.documentId = documentId)

\* withIndex("by_chunk", q => q.eq("chunkId", chunkId)).collect()
EmbeddingsByChunkNone(table, chunkId) == <<>>
EmbeddingsByChunk(table, chunkId) ==
  SelectSeq(table, LAMBDA e : e.chunkId = chunkId)

\* The table after ctx.db.delete of each of these documents.
Without(table, deleted) ==
  SelectSeq(table, LAMBDA d : d._id \notin IdsOf(deleted))

\* The chunks chunkDocument's loop inserts, in order, when its step is
\* positive: the contents of those that are not blank.
RECURSIVE ChunkContents(_, _, _, _)
ChunkContents(words, i, wordsPerChunk, step) ==
  IF ~(i < Len(words)) THEN <<>>
  ELSE LET chunkWords == SliceWords(words, i, i + wordsPerChunk)
       IN (IF IsBlank(chunkWords) THEN <<>> ELSE <<chunkWords>>)
          \o ChunkContents(words, i + step, wordsPerChunk, step)

\* The chunk chunkDocument inserts; the schema's optional fields are absent.
ChunkDoc(id, documentId, chunkIndex, content, createdAt) ==
  [_id |-> id, documentId |-> documentId, chunkIndex |-> chunkIndex,
   content |-> content, embedding |-> None, embeddingModel |-> None,
   embeddingDimensions |-> None, magnitude |-> None, createdAt |-> createdAt]

\* chunkDocument's handler: what it throws, or the contents and the ids of
\* the chunks it inserts.  With a step that is not positive the loop does
\* not end and the runtime ends the mutation, which then changes nothing.
chunkDocument(documentId, chunkSizeArg, chunkOverlapArg) ==
  IF documentId \notin IdsOf(documents)
       \/ NoContent(Get(documents, documentId).content)
  THEN [threw |-> ErrNoContent, contents |-> <<>>, chunkIds |-> <<>>]
  ELSE IF LoopStep(chunkSizeArg, chunkOverlapArg) <= 0
  THEN [threw |-> ErrLimit, contents |-> <<>>, chunkIds |-> <<>>]
  ELSE LET contents ==
             ChunkContents(Get(documents, documentId).content[1], 0,
                           FloorWords(ChunkSizeInForce(chunkSizeArg)),
                           LoopStep(chunkSizeArg, chunkOverlapArg))
       IN [threw |-> NoError, contents |-> contents,
           chunkIds |-> [k \in 1..Len(contents) |-> issued.chunks + k]]

\* The action as it is called: nothing run yet.
RunOf(op, documentId, chunkSizeArg, chunkOverlapArg) ==
  [pc |-> "chunk", calls |-> run.calls + 1, op |-> op,
   documentId |-> documentId,
   chunkSizeArg |-> chunkSizeArg, chunkOverlapArg |-> chunkOverlapArg,
   chunkIds |-> <<>>, chunksCreated |-> 0,
   reads |-> 0, chunkContents |-> <<>>, embeddingResults |-> <<>>,
   error |-> NoError, thrown |-> NoError, success |-> FALSE,
   embeddingsCreated |-> 0, chunksDeleted |-> 0,
   \* for the claims: the chunks rechunkDocument found, whether
   \* chunkDocument left the status "processing", whether step 4 left every
   \* chunk of the run with one embedding and a magnitude, whether another
   \* client deleted from the document during the run
   prior |-> {}, processing |-> FALSE, stored |-> FALSE, interfered |-> FALSE]

InFlight == run.pc \notin {"idle", "done"}

\* The action has returned or thrown: what the caller got stays, the
\* handler's locals are gone.
Ended(r) ==
  [r EXCEPT !.pc = "done", !.documentId = 0, !.error = NoError,
            !.chunkSizeArg = None, !.chunkOverlapArg = None,
            !.chunkIds = <<>>, !.reads = 0, !.chunkContents = <<>>,
            !.embeddingResults = <<>>, !.prior = {},
            !.processing = FALSE, !.stored = FALSE, !.interfered = FALSE]

\* Most calls of processDocument and rechunkDocument in one behaviour, and
\* most documents the pipeline's behaviours create.
MaxRuns == 2
MaxPipeDocuments == 3

\* The words of the document, when it has content.
WordsOf(documentId) ==
  IF documentId \in IdsOf(documents)
       /\ Get(documents, documentId).content # None
  THEN Get(documents, documentId).content[1] ELSE <<>>

\* A run may start when no other is in flight and the pool has room for the
\* embeddings it may store.
MayStart(documentId) ==
  /\ ~InFlight
  /\ run.calls < MaxRuns
  /\ Len(chunkEmbeddings) + Len(WordsOf(documentId)) <= MaxPool

\* Step 1 of processDocument: the chunkDocument mutation, from the run r.
StepChunk(r) ==
  LET out == chunkDocument(r.documentId, r.chunkSizeArg, r.chunkOverlapArg)
  IN /\ IF out.threw # NoError
        THEN /\ run' = [r EXCEPT !.pc = "catch", !.error = out.threw]
             /\ UNCHANGED <<chunks, documents, issued>>
        ELSE /\ chunks' = chunks \o
                  [k \in 1..Len(out.contents) |->
                     ChunkDoc(out.chunkIds[k], r.documentId, k - 1,
                              out.contents[k], now)]
             /\ documents' = Patch(documents, r.documentId,
                                   [status |-> "processing", updatedAt |-> now])
             /\ issued' = [issued EXCEPT !.chunks = @ + Len(out.contents)]
             /\ run' = [r EXCEPT
                          !.pc = "read",
                          !.chunkIds = out.chunkIds,
                          !.chunksCreated = Len(out.contents),
                          !.processing =
                             Get(documents', r.documentId).status = "processing"]
     /\ UNCHANGED <<vectorMemories, chunkEmbeddings, now, ret, session,
                    listing, obsVars, loop>>

\* processDocument is called: its first step is chunkDocument.
ProcessDocument(documentId, chunkSizeArg, chunkOverlapArg) ==
  /\ MayStart(documentId)
  /\ StepChunk(RunOf("processDocument", documentId, chunkSizeArg, chunkOverlapArg))

\* deleteDocumentChunks' handler: the chunks of the document, and the tables
\* without them and without the embeddings of each.
deleteDocumentChunks(documentId) ==
  LET found == ChunksByDocument(chunks, documentId)
      embeddings ==
        SelectSeq(chunkEmbeddings,
                  LAMBDA e : \E k \in 1..Len(found) :
                     \E j \in 1..Len(EmbeddingsByChunk(chunkEmbeddings, found[k]._id)) :
                        EmbeddingsByChunk(chunkEmbeddings, found[k]._id)[j]._id = e._id)
  IN [found |-> found,
      chunkEmbeddings |-> Without(chunkEmbeddings, embeddings),
      chunks |-> Without(chunks, found),
      chunksDeleted |-> Len(found)]

\* rechunkDocument is called: its first step is deleteDocumentChunks; the
\* processDocument it runs next starts with RechunkChunk.
RechunkDocument(documentId, chunkSizeArg, chunkOverlapArg) ==
  /\ MayStart(documentId)
  /\ LET out == deleteDocumentChunks(documentId)
     IN /\ chunkEmbeddings' = out.chunkEmbeddings
        /\ chunks' = out.chunks
        /\ run' = [RunOf("rechunkDocument", documentId, chunkSizeArg, chunkOverlapArg)
                     EXCEPT !.chunksDeleted = out.chunksDeleted,
                            !.prior = {chunks[i]._id :
                                         i \in {j \in 1..Len(chunks) :
                                                  chunks[j].documentId = documentId}}]
  /\ UNCHANGED <<vectorMemories, now, ret, session, documents, listing,
                 obsVars, loop, issued>>

RechunkChunk ==
  /\ run.pc = "chunk"
  /\ StepChunk(run)

\* Step 2, one getChunk query: a chunk that is gone adds no content.
ReadChunk ==
  /\ run.pc = "read"
  /\ run.reads < Len(run.chunkIds)
  /\ LET chunkId == run.chunkIds[run.reads + 1]
     IN run' = [run EXCEPT
                  !.reads = @ + 1,
                  !.chunkContents =
                     IF chunkId \in IdsOf(chunks)
                     THEN Append(@, Get(chunks, chunkId).content) ELSE @]
  /\ UNCHANGED <<vectorMemories, chunks, chunkEmbeddings, now, ret, session,
                 documents, listing, obsVars, loop, issued>>

\* The embedding service, a function of the text: distinct chunks of the
\* model's documents get distinct embeddings, of a whole magnitude.
Embed(text) == [k \in 1..2 |-> IF k = Min(Len(text), 2) THEN Head(text) ELSE 0]
VOYAGE_MODEL == "voyage-3.5"

\* Step 3, batchGenerateEmbeddings: one result for each text, in the order
\* of the texts.
batchGenerateEmbeddings(texts) ==
  [k \in 1..Len(texts) |->
     [embedding |-> Embed(texts[k]),
      magnitude |-> calculateMagnitude(Embed(texts[k])),
      model |-> VOYAGE_MODEL,
      dimensions |-> Len(Embed(texts[k]))]]

GenerateEmbeddings ==
  /\ run.pc = "read"
  /\ run.reads = Len(run.chunkIds)
  /\ run' = [run EXCEPT !.pc = "store",
                        !.embeddingResults = batchGenerateEmbeddings(run.chunkContents)]
  /\ UNCHANGED <<vectorMemories, chunks, chunkEmbeddings, now, ret, session,
                 documents, listing, obsVars, loop, issued>>

\* The API key is not set, or the service answers with an error.
GenerateEmbeddingsFails ==
  /\ run.pc = "read"
  /\ run.reads = Len(run.chunkIds)
  /\ run' = [run EXCEPT !.pc = "catch", !.error = ErrApi]
  /\ UNCHANGED <<vectorMemories, chunks, chunkEmbeddings, now, ret, session,
                 documents, listing, obsVars, loop, issued>>

\* Step 4's map: chunk number index with result number index.
EmbeddingDataFirstOnly(chunkIds, embeddingResults) ==
  [k \in 1..Min(1, Len(chunkIds)) |->
     [chunkId |-> chunkIds[k],
      embedding |-> embeddingResults[k].embedding,
      model |-> embeddingResults[k].model,
      dimensions |-> embeddingResults[k].dimensions]]
EmbeddingDataReversed(chunkIds, embeddingResults) ==
  [k \in 1..Len(chunkIds) |->
     [chunkId |-> chunkIds[k],
      embedding |-> embeddingResults[Len(chunkIds) + 1 - k].embedding,
      model |-> embeddingResults[Len(chunkIds) + 1 - k].model,
      dimensions |-> embeddingResults[Len(chunkIds) + 1 - k].dimensions]]
EmbeddingData(chunkIds, embeddingResults) ==
  [k \in 1..Len(chunkIds) |->
     [chunkId |-> chunkIds[k],
      embedding |-> embeddingResults[k].embedding,
      model |-> embeddingResults[k].model,
      dimensions |-> embeddingResults[k].dimensions]]

\* Each chunk of the run has one chunkEmbeddings record and a magnitude.
EveryChunkStored(chunkIds, chunkTable, embeddingTable) ==
  \A k \in 1..Len(chunkIds) :
    /\ Len(EmbeddingsByChunk(embeddingTable, chunkIds[k])) = 1
    /\ chunkIds[k] \in IdsOf(chunkTable)
    /\ Get(chunkTable, chunkIds[k]).magnitude # None

\* Step 4: with fewer results than chunks the map throws; with a chunk gone
\* batchStoreChunkEmbeddings' patch throws and the mutation stores nothing.
StoreEmbeddings ==
  /\ run.pc = "store"
  /\ IF Len(run.embeddingResults) < Len(run.chunkIds)
     THEN /\ run' = [run EXCEPT !.pc = "catch", !.error = ErrType]
          /\ UNCHANGED <<chunks, chunkEmbeddings, issued>>
     ELSE LET items == EmbeddingData(run.chunkIds, run.embeddingResults)
              ids == [k \in 1..Len(items) |-> <<107, 97 + issued.embeddings + (k - 1)>>]
          IN IF \E k \in 1..Len(items) : items[k].chunkId \notin IdsOf(chunks)
             THEN /\ run' = [run EXCEPT !.pc = "catch", !.error = ErrMissing]
                  /\ UNCHANGED <<chunks, chunkEmbeddings, issued>>
             ELSE /\ BatchStoreChunkEmbeddings(ids, items)
                  /\ issued' = [issued EXCEPT !.embeddings = @ + Len(items)]
                  /\ run' = [run EXCEPT
                               !.pc = "status",
                               !.stored = EveryChunkStored(run.chunkIds, chunks',
                                                           chunkEmbeddings')]
  /\ UNCHANGED <<vectorMemories, now, ret, session, documents, listing,
                 obsVars, loop>>

\* Step 5: updateDocumentStatus to "indexed", and the action returns.
MarkIndexed ==
  /\ run.pc = "status"
  /\ IF run.documentId \in IdsOf(documents)
     THEN /\ UpdateDocumentStatus(run.documentId, "indexed", Some(now))
          /\ run' = Ended([run EXCEPT
                                 !.success = TRUE,
                                 !.embeddingsCreated = Len(run.embeddingResults)])
     ELSE /\ run' = [run EXCEPT !.pc = "catch", !.error = ErrMissing]
          /\ UNCHANGED <<documents, listing>>
  /\ UNCHANGED <<vectorMemories, chunks, chunkEmbeddings, now, ret, session,
                 obsVars, loop, issued>>

\* The catch block: updateDocumentStatus to "error", then `throw error`;
\* when the mutation throws, its error is the one the action throws.
Catch ==
  /\ run.pc = "catch"
  /\ IF run.documentId \in IdsOf(documents)
     THEN /\ UpdateDocumentStatus(run.documentId, "error", None)
          /\ run' = Ended([run EXCEPT !.thrown = run.error])
     ELSE /\ run' = Ended([run EXCEPT !.thrown = ErrMissing])
          /\ UNCHANGED <<documents, listing>>
  /\ UNCHANGED <<vectorMemories, chunks, chunkEmbeddings, now, ret, session,
                 obsVars, loop, issued>>

\* Whether a delete on this document falls into the run in flight.
Interfering(documentId) ==
  IF InFlight /\ run.documentId = documentId
  THEN [run EXCEPT !.interfered = TRUE] ELSE run

\* The deleteDocumentChunks mutation, called by another client.
DeleteDocumentChunks(documentId) ==
  /\ ChunksByDocument(chunks, documentId) # <<>>
  /\ chunkEmbeddings' = deleteDocumentChunks(documentId).chunkEmbeddings
  /\ chunks' = deleteDocumentChunks(documentId).chunks
  /\ run' = Interfering(documentId)
  /\ UNCHANGED <<vectorMemories, now, ret, session, documents, listing,
                 obsVars, loop, issued>>

\* deleteDocument: the chunks of the document, then the document;
\* ctx.db.delete throws on a document that does not exist.
DeleteDocument(id) ==
  /\ id \in IdsOf(documents)
  /\ LET found == ChunksByDocument(chunks, id)
     IN /\ chunks' = Without(chunks, found)
        /\ documents' = Without(documents, <<Get(documents, id)>>)
        /\ ret' = [op |-> "deleteDocument", threw |-> FALSE,
                   deleted |-> TRUE, chunksDeleted |-> Len(found)]
  /\ run' = Interfering(id)
  /\ UNCHANGED <<vectorMemories, chunkEmbeddings, now, session, listing,
                 obsVars, loop, issued>>

\* SpecPipeline: documents are created, then processed, rechunked and
\* deleted, one action in flight at a time.
\* The documents are "a b" twice, then " " and "": "a b" chunked by default
\* is one chunk, with chunkSize 2 and chunkOverlap 1 one chunk per word, and
\* with chunkSize 1 the loop's step is negative; " " has no chunk and ""
\* counts as no content.
PipeContents == <<Some(<<1, 2>>), Some(<<1, 2>>), Some(<<0, 0>>), Some(<<0>>)>>
PipeArgs ==
  {[chunkSize |-> None, chunkOverlap |-> None],
   [chunkSize |-> Some(2), chunkOverlap |-> Some(1)],
   [chunkSize |-> Some(1), chunkOverlap |-> None]}

PipeNext ==
  \/ /\ issued.documents < Min(MaxPipeDocuments, Len(PipeContents))
     /\ run.calls = 0
     /\ CreateDocument(PipeContents[issued.documents + 1])
     /\ UNCHANGED <<vectorMemories, chunks, chunkEmbeddings, now, ret,
                    session, obsVars, pipeVars>>
  \/ \E d \in 1..issued.documents, a \in PipeArgs :
       ProcessDocument(d, a.chunkSize, a.chunkOverlap)
  \/ \E d \in 1..issued.documents, a \in PipeArgs :
       RechunkDocument(d, a.chunkSize, a.chunkOverlap)
  \/ RechunkChunk
  \/ ReadChunk
  \/ GenerateEmbeddings
  \/ GenerateEmbeddingsFails
  \/ StoreEmbeddings
  \/ MarkIndexed
  \/ Catch
  \/ \E d \in 1..issued.documents : DeleteDocumentChunks(d)
  \/ \E d \in 1..issued.documents : DeleteDocument(d)

SpecPipeline == Init /\ [][PipeNext]_vars

---------------------------------------------------------------------------
\* Claims about the ingestion pipeline.

\* C21: the step on which deleteDocument(id) takes the document away
\* leaves no chunk whose documentId is id, and returns deleted = true with
\* chunksDeleted the number of chunks that referenced the document before.
C21_DeleteDocumentCascades ==
  [][\A id \in IdsOf(documents) :
       id \notin IdsOf(documents') =>
         /\ \A i \in 1..Len(chunks') : chunks'[i].documentId # id
         /\ ret'.op = "deleteDocument" /\ ret'.deleted
         /\ ret'.chunksDeleted =
              Cardinality({i \in 1..Len(chunks) : chunks[i].documentId = id})]_vars

\* C21's case: a document with two chunks was deleted while another
\* document's chunk stayed.
C21_Witness ==
  /\ ret.op = "deleteDocument"
  /\ ret.chunksDeleted = 2
  /\ chunks # <<>>

\* C22: when a step of processDocument fails, the catch block leaves the
\* document with status "error" and the action throws the error of the
\* step that failed.
C22_FailureMarksError ==
  [][(run.pc = "catch" /\ run'.pc = "done") =>
       /\ run'.thrown = run.error
       /\ ~run'.success
       /\ run.documentId \in IdsOf(documents')
       /\ Get(documents', run.documentId).status = "error"]_vars

\* C23: a document's status becomes "indexed" only on step 5 of a
\* processDocument whose chunkDocument left it "processing" and whose step 4
\* left every chunk of the run with exactly one chunkEmbeddings record and a
\* magnitude; the run then returns success with indexedAt set and
\* embeddingsCreated equal to chunksCreated.
C23_IndexedAfterStored ==
  [][\A d \in IdsOf(documents') :
       (/\ Get(documents', d).status = "indexed"
        /\ d \in IdsOf(documents) => Get(documents, d).status # "indexed") =>
         /\ run.pc = "status" /\ run.documentId = d
         /\ run.processing
         /\ run.stored
         /\ Get(documents', d).indexedAt # None
         /\ run'.pc = "done" /\ run'.success
         /\ run'.embeddingsCreated = run'.chunksCreated]_vars

\* C23's case: a run of two chunks has returned success.
C23_Witness ==
  /\ run.pc = "done" /\ run.success
  /\ run.chunksCreated = 2
  /\ run.embeddingsCreated = 2
  /\ \E d \in IdsOf(documents) :
       /\ Get(documents, d).status = "indexed"
       /\ Len(ChunksByDocument(chunks, d)) = 2

C26_NoDanglingReference ==
  /\ \A i \in 1..Len(chunkEmbeddings) : chunkEmbeddings[i].chunkId \in IdsOf(chunks)
  /\ \A i \in 1..Len(chunks) : chunks[i].documentId \in IdsOf(documents)

\* C28: the chunkIndex values of each document's chunks are unique and are
\* 0, 1, ..., n - 1.
C28_ChunkIndexesDense ==
  \A d \in IdsOf(documents) :
    LET found == ChunksByDocument(chunks, d)
    IN /\ {found[k].chunkIndex : k \in 1..Len(found)} = 0..(Len(found) - 1)
       /\ \A j, k \in 1..Len(found) :
            j # k => found[j].chunkIndex # found[k].chunkIndex

\* C29: the embedding stored for a chunk is the one generated from that
\* chunk's own content, also when a getChunk of the run returned null.
C29_EmbeddingOfOwnContent ==
  \A i \in 1..Len(chunkEmbeddings) :
    chunkEmbeddings[i].chunkId \in IdsOf(chunks) =>
      chunkEmbeddings[i].embedding
        = Embed(Get(chunks, chunkEmbeddings[i].chunkId).content)

\* C29's case: a run of two chunks got null for one of its reads and came
\* to step 4 with one result, while a chunk of an earlier run keeps its
\* embedding.
C29_Witness ==
  /\ run.pc = "catch"
  /\ run.error = ErrType
  /\ Len(run.chunkIds) = 2
  /\ Len(run.embeddingResults) = 1
  /\ \E i \in 1..Len(chunkEmbeddings) : chunkEmbeddings[i].chunkId \in IdsOf(chunks)

---------------------------------------------------------------------------
\* SpecAppend: one client pages through searchChunksV2 while the stores go
\* on inserting chunkEmbeddings, before the session and between its pages.

AppendArgs ==
  {Args(<<1, 0>>, None, None, c, m, None, None) :
     c \in {None, session.cursor}, m \in ModelArgs}

\* A page of the session; log.cur holds the size of the pool at each page.
AppendFirst(args) ==
  /\ session.state = "idle"
  /\ SearchChunksV2First(args)
  /\ log' = [log EXCEPT !.cur = <<Len(chunkEmbeddings)>>]
  /\ UNCHANGED <<docVars, calc>>

AppendPage(args) ==
  /\ SearchChunksV2Next(args)
  /\ log' = [log EXCEPT !.cur = Append(@, Len(chunkEmbeddings))]
  /\ UNCHANGED <<docVars, calc>>

AppendNext ==
  \/ Tick /\ UNCHANGED <<docVars, obsVars>>
  \/ /\ StoreChunkWithEmbedding(1, <<1, 0>>, "m1") /\ chunks = <<>>
     /\ UNCHANGED <<docVars, obsVars>>
  \/ \E id \in EmbeddingIds, item \in ItemsOver(PageVectors) :
       StoreChunkEmbedding(id, item) /\ UNCHANGED <<docVars, obsVars>>
  \/ \E args \in AppendArgs : AppendFirst(args)
  \/ \E args \in AppendArgs : AppendPage(args)

SpecAppend == Init /\ [][AppendNext]_vars

\* Records were appended between the first and the last page so far.
AppendedBetweenPages ==
  /\ log.cur # <<>>
  /\ log.cur[Len(log.cur)] > log.cur[1]

\* The records of the pool the session started on that match its filter.
StartPool ==
  IF session.model = None THEN session.pool
  ELSE SelectSeq(session.pool, LAMBDA d : d.model = session.model[1])

\* C25: with records appended between the pages of a session, every record
\* that was in the pool when the session started has been in the scan window
\* of exactly one page when the session reaches hasMore = false.
C25_StartPoolScannedOnce ==
  (session.state = "done" /\ AppendedBetweenPages) =>
    \A i \in 1..Len(StartPool) : TimesScanned(StartPool[i]._id) = 1

====
